---- MODULE Spec2Model ----
(***************************************************************************)
(* Inverted index, its accessors, the probabilistic and vector-space        *)
(* rankers and the query expansion, modelled from                          *)
(* source-code/index_class.py, source-code/methods.py,                     *)
(* source-code/query_expansion.py, source-code/main.py and                 *)
(* source-code/util.py.                                                    *)
(*                                                                         *)
(* Python values are modelled as follows.                                  *)
(*   - a dict is a function whose DOMAIN is the set of keys;               *)
(*   - a list is a sequence;                                               *)
(*   - a value whose type the code tests is a record with a "type" field;  *)
(*   - the outcome of a call is a record with a "raised" field, "none"     *)
(*     when the call returned, the exception's name when it raised;        *)
(*   - a float score log10(a1/b1) + ... + log10(ak/bk) is the exact        *)
(*     rational (a1*...*ak)/(b1*...*bk) in lowest terms, so that the sign  *)
(*     and the order of scores are decided in integer arithmetic.          *)
(***************************************************************************)
EXTENDS Integers, Sequences, FiniteSets, TLC

VARIABLES
    database_contents,   \* constructor argument: doc name -> content
    arg_filter_stopwords,\* constructor argument filter_stopwords
    arg_stem_words,      \* constructor argument stem_words
    constructed,         \* TRUE once Index.__init__ has run
    words_in_doc,        \* self.words_in_doc
    doc_id,              \* self.doc_id
    posting_list,        \* self.posting_list
    all_words,           \* self.all_words
    has_attrs,           \* TRUE when all_words, filter_stopwords, stem_words are set
    query,               \* the query handed to a ranker: a list of tokens
    relevant_docs,       \* the relevant_docs handed to probabilisticModel
    tdm_builds,          \* times vectorialModel built a term-document matrix
    ret                  \* the last call and its outcome

vars == <<database_contents, arg_filter_stopwords, arg_stem_words, constructed,
          words_in_doc, doc_id, posting_list, all_words, has_attrs,
          query, relevant_docs, tdm_builds, ret>>

index_vars == <<words_in_doc, doc_id, posting_list, all_words, has_attrs>>

input_vars == <<database_contents, arg_filter_stopwords, arg_stem_words,
                query, relevant_docs>>

-----------------------------------------------------------------------------
(* Bounds *)

\* longest raw text of a document, in tokens
MaxLen == 2

\* number of document names a corpus draws its keys from
NDocs == 2

\* longest raw text of a document of a corpus that add_docs_to_word extends
MergeLen == 1

\* largest frequency passed to add_docs_to_word; the smallest is -1
MaxFreqArg == 2

\* longest token list, and largest frequency, add_docs_to_word may build
MaxTokens == 2

\* longest posting_list argument in a sequence of calls
MergeEntries == 1

\* longest posting_list argument of the recorded call
CallEntries == 2

\* longest query
MaxQuery == 2

\* longest list of relevant documents
MaxRelevant == 1

\* longest raw text of a document of a corpus the rankers run on
RankedLen == 1

\* most term-document matrices built in one behaviour
MaxBuilds == 2

\* longest ranking handed to implicit_feedback
MaxRanking == 2

\* largest number of similar words asked of implicit_feedback
MaxWidth == 2

-----------------------------------------------------------------------------
(* Strings and their order *)

\* every string the index sorts, in Python's (lexicographic) string order
Strings == <<"cat", "cats", "d1", "d2", "d3", "d4", "dog", "mat", "on", "sat", "the", "zz">>

Ord(s) == CHOOSE i \in 1..Len(Strings) : Strings[i] = s

DocUniverse == <<"d1", "d2", "d3", "d4">>

DocNames == {DocUniverse[i] : i \in 1..NDocs}

\* raw tokens of a document text, before normalisation
RawWords == {"The", "cat", "cats"}

STOP_WORDS == {"the"}

Range(s) == {s[i] : i \in 1..Len(s)}

SeqsUpTo(S, n) == UNION {[1..k -> S] : k \in 0..n}

RECURSIVE Count(_, _)
Count(s, e) ==
    IF s = <<>> THEN 0
    ELSE (IF Head(s) = e THEN 1 ELSE 0) + Count(Tail(s), e)

Repeat(e, n) == [i \in 1..(IF n > 0 THEN n ELSE 0) |-> e]

\* sorted(list) on strings: a stable insertion sort
RECURSIVE InsertSorted(_, _)
InsertSorted(s, e) ==
    IF s = <<>> THEN <<e>>
    ELSE IF Ord(e) < Ord(Head(s)) THEN <<e>> \o s
    ELSE <<Head(s)>> \o InsertSorted(Tail(s), e)

RECURSIVE Sorted(_)
Sorted(s) ==
    IF s = <<>> THEN <<>>
    ELSE InsertSorted(Sorted(SubSeq(s, 1, Len(s) - 1)), s[Len(s)])

\* sorted(set): the elements of a set of strings in increasing order
RECURSIVE SortedSet(_)
SortedSet(S) ==
    IF S = {} THEN <<>>
    ELSE LET m == CHOOSE x \in S : \A y \in S : Ord(x) <= Ord(y)
         IN <<m>> \o SortedSet(S \ {m})

-----------------------------------------------------------------------------
(* util.py *)

lower(w) == IF w = "The" THEN "the" ELSE w

\* stem(lemmatize(word))
stem(w) == IF w = "cats" THEN "cat" ELSE w

RECURSIVE parse_tokens(_, _, _)
parse_tokens(tokens, filter_stopwords, stem_words) ==
    IF tokens = <<>> THEN <<>>
    ELSE LET word == Head(tokens)
             rest == parse_tokens(Tail(tokens), filter_stopwords, stem_words)
         IN IF filter_stopwords /\ word \in STOP_WORDS THEN rest
            ELSE <<IF stem_words THEN stem(word) ELSE word>> \o rest

parse_text(text, filter_stopwords, stem_words) ==
    parse_tokens([i \in 1..Len(text) |-> lower(text[i])], filter_stopwords, stem_words)

get_intersection(list1, list2) == SelectSeq(list1, LAMBDA e : e \in Range(list2))

-----------------------------------------------------------------------------
(* Values *)

Text(t) == [type |-> "str", text |-> t]

NotText == [type |-> "int", text |-> <<>>]

Contents == {Text(t) : t \in SeqsUpTo(RawWords, MaxLen)} \cup {NotText}

Corpora == UNION {[S -> Contents] : S \in SUBSET DocNames}

\* an entry of a posting list
Node(doc, freq) == [type |-> "dict", doc |-> doc, freq |-> freq, str |-> ""]

\* a string stored where a posting entry is expected
StrItem(s) == [type |-> "str", doc |-> "", freq |-> 0, str |-> s]

Return(v) == [raised |-> "none", value |-> v]

Raise(e) == [raised |-> e]

-----------------------------------------------------------------------------
(* Index.__init__ *)

\* dict[key] = value
Put(dict, key, value) == [k \in DOMAIN dict \cup {key} |-> IF k = key THEN value ELSE dict[k]]

EmptyIndex ==
    [words_in_doc |-> <<>>, doc_id |-> <<>>, posting_list |-> <<>>,
     all_words |-> {}, returned |-> FALSE]

\* a posting that records the presence of the word, not its count
frequency_of_presence(words, word) == 1

\* words.count(word)
frequency_of(words, word) == Count(words, word)

\* the words the loop of line 67 visits: set(words)
words_to_post(words) == Range(words)

\* lines 67-75: the postings of one document
AddPostings(pl, doc, words) ==
    [w \in DOMAIN pl \cup words_to_post(words) |->
        LET old == IF w \in DOMAIN pl THEN pl[w] ELSE <<>>
        IN IF w \in words_to_post(words)
           THEN Append(old, Node(doc, frequency_of(words, w)))
           ELSE old]

\* lines 58-78: the body of the loop for the document of ordinal i
init_step(st, doc, content, filter_stopwords, stem_words, i) ==
    IF st.returned THEN st
    ELSE IF content.type # "str" THEN [st EXCEPT !.returned = TRUE]
    ELSE LET words == parse_text(content.text, filter_stopwords, stem_words)
         IN [words_in_doc |-> Put(st.words_in_doc, doc, words),
             doc_id |-> Put(st.doc_id, doc, i),
             posting_list |-> AddPostings(st.posting_list, doc, words),
             all_words |-> st.all_words \cup Range(words),
             returned |-> FALSE]

\* lines 56-78: the loop over the sorted database, from its i-th document on;
\* "returned" is set by the return of line 61 and ends the loop
RECURSIVE InitLoop(_, _, _, _, _, _)
InitLoop(st, database, contents, filter_stopwords, stem_words, i) ==
    IF i > Len(database) THEN st
    ELSE InitLoop(init_step(st, database[i], contents[database[i]],
                            filter_stopwords, stem_words, i - 1),
                  database, contents, filter_stopwords, stem_words, i + 1)

\* lines 36-78
IndexOf(contents, filter_stopwords, stem_words) ==
    InitLoop(EmptyIndex, SortedSet(DOMAIN contents), contents,
             filter_stopwords, stem_words, 1)

IndexInit ==
    /\ ~constructed
    /\ \E ix \in {IndexOf(database_contents, arg_filter_stopwords, arg_stem_words)} :
          /\ words_in_doc' = ix.words_in_doc
          /\ doc_id' = ix.doc_id
          /\ posting_list' = ix.posting_list
          /\ all_words' = IF ix.returned THEN <<>> ELSE SortedSet(ix.all_words)
          /\ has_attrs' = ~ix.returned
    /\ constructed' = TRUE
    /\ ret' = [op |-> "__init__", raised |-> "none"]
    /\ UNCHANGED <<input_vars, tdm_builds>>

-----------------------------------------------------------------------------
(* Read accessors of Index *)

\* a posting list holds a string where line 116 stored the words of a new document
HasStrItem(nodes) == \E i \in 1..Len(nodes) : nodes[i].type = "str"

get_posting_list(word) ==
    Return(IF word \in DOMAIN posting_list THEN posting_list[word] ELSE <<>>)

\* e['doc'] on a string raises TypeError
get_doc_list(word) ==
    IF word \in DOMAIN posting_list
    THEN IF HasStrItem(posting_list[word]) THEN Raise("TypeError")
         ELSE Return([i \in 1..Len(posting_list[word]) |-> posting_list[word][i].doc])
    ELSE Return(<<>>)

get_words_in_doc(doc) ==
    Return(IF doc \in DOMAIN words_in_doc THEN words_in_doc[doc] ELSE <<>>)

get_n_docs == Cardinality(DOMAIN words_in_doc)

get_n_docs_containing(word) ==
    Return(IF word \in DOMAIN posting_list THEN Len(posting_list[word]) ELSE 0)

get_n_different_words(doc) ==
    Return(IF doc \in DOMAIN words_in_doc THEN Cardinality(Range(words_in_doc[doc])) ELSE 0)

RECURSIVE SumFreq(_)
SumFreq(nodes) == IF nodes = <<>> THEN 0 ELSE Head(nodes).freq + SumFreq(Tail(nodes))

\* cur['freq'] on a string raises TypeError
get_total_freq(word) ==
    IF word \in DOMAIN posting_list
    THEN IF HasStrItem(posting_list[word]) THEN Raise("TypeError")
         ELSE Return(SumFreq(posting_list[word]))
    ELSE Return(0)

\* sorted(self.words_in_doc.items()): the pairs (doc, words) by doc name
get_all_docs ==
    LET names == SortedSet(DOMAIN words_in_doc)
    IN [i \in 1..Len(names) |-> <<names[i], words_in_doc[names[i]]>>]

get_all_docs_names == SortedSet(DOMAIN words_in_doc)

\* self.all_words is an attribute only after a complete construction
get_all_words == IF has_attrs THEN Return(all_words) ELSE Raise("AttributeError")

get_doc_id(name) ==
    Return(IF name \in DOMAIN doc_id THEN doc_id[name] ELSE -1)

\* "int in self.doc_id.values()": the values are int instances, and the
\* type object int equals none of them
is_type_int(value) == FALSE

type_int_in(values) == \E v \in values : is_type_int(v)

get_doc_name(id) ==
    IF type_int_in({doc_id[d] : d \in DOMAIN doc_id})
    THEN LET found == {d \in DOMAIN doc_id : doc_id[d] = id}
         IN IF found = {} THEN Raise("IndexError")
            ELSE Return(CHOOSE d \in found : TRUE)
    ELSE Return("")

\* the words of the documents of docs, as a set; list(set(...)) enumerates
\* them in an order the hash seed decides
words_in_docs(docs) ==
    UNION {Range(words_in_doc[d]) : d \in DOMAIN words_in_doc \cap docs}

Permutations_of(S) ==
    {p \in [1..Cardinality(S) -> S] : \A x \in S : \E i \in 1..Cardinality(S) : p[i] = x}

get_all_words_in_docs(docs) == {Return(p) : p \in Permutations_of(words_in_docs(docs))}

get_frequency_in_doc(word, doc) ==
    IF doc \in DOMAIN words_in_doc THEN Return(Count(words_in_doc[doc], word))
    ELSE Raise("KeyError")

-----------------------------------------------------------------------------
(* Calls of the read accessors *)

\* arguments of the reads: indexed and unknown words, documents and ids
ReadWords == {"cat", "the", "dog"}

ReadDocs == DocNames \cup {"zz"}

ReadIds == -1..NDocs

Read(op, arg, out) ==
    /\ constructed
    /\ ret' = [op |-> op, arg |-> arg, raised |-> out.raised, out |-> out]
    /\ UNCHANGED <<input_vars, constructed, index_vars, tdm_builds>>

ReadPostingList == \E w \in ReadWords : Read("get_posting_list", w, get_posting_list(w))

ReadDocList == \E w \in ReadWords : Read("get_doc_list", w, get_doc_list(w))

ReadWordsInDoc == \E d \in ReadDocs : Read("get_words_in_doc", d, get_words_in_doc(d))

ReadNDocsContaining ==
    \E w \in ReadWords : Read("get_n_docs_containing", w, get_n_docs_containing(w))

ReadNDifferentWords ==
    \E d \in ReadDocs : Read("get_n_different_words", d, get_n_different_words(d))

ReadTotalFreq == \E w \in ReadWords : Read("get_total_freq", w, get_total_freq(w))

ReadFrequencyInDoc ==
    \E w \in ReadWords, d \in ReadDocs :
        Read("get_frequency_in_doc", <<w, d>>, get_frequency_in_doc(w, d))

ReadAllWordsInDocs ==
    \E docs \in SUBSET ReadDocs : \E out \in get_all_words_in_docs(docs) :
        Read("get_all_words_in_docs", SortedSet(docs), out)

ReadDocId == \E d \in ReadDocs : Read("get_doc_id", d, get_doc_id(d))

ReadDocName == \E id \in ReadIds : Read("get_doc_name", id, get_doc_name(id))

ReadAccessor ==
    \/ ReadPostingList
    \/ ReadDocList
    \/ ReadWordsInDoc
    \/ ReadNDocsContaining
    \/ ReadNDifferentWords
    \/ ReadTotalFreq
    \/ ReadFrequencyInDoc
    \/ ReadAllWordsInDocs
    \/ ReadDocId
    \/ ReadDocName

-----------------------------------------------------------------------------
(* Index.add_docs_to_word *)

\* values of the 'doc' and 'freq' fields of an element of the posting_list argument
PyStr(v) == [type |-> "str", str |-> v, int |-> 0]

PyInt(n) == [type |-> "int", str |-> "", int |-> n]

NoneValue == [type |-> "NoneType", str |-> "", int |-> 0]

FloatValue == [type |-> "float", str |-> "", int |-> 0]

Element(doc, freq) == [doc |-> doc, freq |-> freq]

\* a test that forgets the type of freq
is_invalid_doc_only(element) == element.doc.type # "str"

\* line 112: the test that makes the loop skip an element
is_invalid(element) == element.doc.type # "str" \/ element.freq.type # "int"

\* self.posting_list[word].sort(key=lambda e: e['doc']): stable, by doc name
RECURSIVE InsertNode(_, _)
InsertNode(nodes, e) ==
    IF nodes = <<>> THEN <<e>>
    ELSE IF Ord(e.doc) < Ord(Head(nodes).doc) THEN <<e>> \o nodes
    ELSE <<Head(nodes)>> \o InsertNode(Tail(nodes), e)

RECURSIVE sort_by_doc(_)
sort_by_doc(nodes) ==
    IF nodes = <<>> THEN <<>>
    ELSE InsertNode(sort_by_doc(SubSeq(nodes, 1, Len(nodes) - 1)), nodes[Len(nodes)])

\* lines 122-125: the element is counted into the posting list of word
merge_posting(nodes, doc, freq) ==
    LET found == {i \in 1..Len(nodes) : nodes[i].doc = doc}
    IN IF found = {} THEN sort_by_doc(Append(nodes, Node(doc, freq)))
       ELSE LET first == CHOOSE i \in found : \A j \in found : i <= j
            IN sort_by_doc([nodes EXCEPT ![first].freq = @ + freq])

\* the state a call works on: the three dicts and the exception raised so far
CallState(wd, di, pl, raised) ==
    [words_in_doc |-> wd, doc_id |-> di, posting_list |-> pl, raised |-> raised]

\* lines 108-125: one iteration of the loop
merge_element(st, word, element) ==
    LET doc == element.doc.str
        freq == element.freq.int
    IN IF st.raised # "none" THEN st
       ELSE IF is_invalid(element) THEN st
       ELSE IF doc \notin DOMAIN st.words_in_doc
       THEN \* line 116 stores the words under posting_list[doc]; line 117 then
            \* reads doc_id[doc], which raises
            [st EXCEPT !.posting_list = Put(st.posting_list, doc, Repeat(StrItem(word), freq)),
                       !.raised = IF doc \in DOMAIN st.doc_id THEN "AttributeError"
                                  ELSE "KeyError"]
       ELSE LET wd == Put(st.words_in_doc, doc,
                          Sorted(st.words_in_doc[doc] \o Repeat(word, freq)))
            IN IF HasStrItem(st.posting_list[word])
               THEN \* node['doc'] on a string raises TypeError, and so does the sort
                    [st EXCEPT !.words_in_doc = wd, !.raised = "TypeError"]
               ELSE [st EXCEPT !.words_in_doc = wd,
                               !.posting_list = Put(st.posting_list, word,
                                   merge_posting(st.posting_list[word], doc, freq))]

RECURSIVE merge_loop(_, _, _, _)
merge_loop(st, word, elements, i) ==
    IF i = 0 THEN st
    ELSE merge_element(merge_loop(st, word, elements, i - 1), word, elements[i])

\* lines 97-125 on the index st, with self.filter_stopwords set iff attrs
add_docs(st, attrs, filter_stopwords, word, elements) ==
    IF word \in STOP_WORDS /\ ~attrs THEN [st EXCEPT !.raised = "AttributeError"]
    ELSE IF word \in STOP_WORDS /\ filter_stopwords THEN st
    ELSE LET pl == IF word \notin DOMAIN st.posting_list
                   THEN Put(st.posting_list, word, <<>>)
                   ELSE st.posting_list
             st1 == [st EXCEPT !.posting_list = pl]
         IN IF DOMAIN st.doc_id = {} THEN [st1 EXCEPT !.raised = "IndexError"]
            ELSE merge_loop(st1, word, elements, Len(elements))

Self == CallState(words_in_doc, doc_id, posting_list, "none")

add_docs_to_word(word, elements, out) ==
    /\ constructed
    /\ out = add_docs(Self, has_attrs, arg_filter_stopwords, word, elements)
    /\ words_in_doc' = out.words_in_doc
    /\ doc_id' = out.doc_id
    /\ posting_list' = out.posting_list
    /\ UNCHANGED <<input_vars, constructed, all_words, has_attrs, tdm_builds>>

-----------------------------------------------------------------------------
(* Calls of add_docs_to_word *)

MergeWords == {"cat", "the"}

DocValues == {PyStr(d) : d \in DocNames} \cup {NoneValue}

FreqValues == {PyInt(n) : n \in (-1)..MaxFreqArg} \cup {FloatValue}

Elements == {Element(d, f) : d \in DocValues, f \in FreqValues}

\* every frequency and every list of the index stays within the bounds
WithinBounds(st) ==
    /\ \A d \in DOMAIN st.words_in_doc : Len(st.words_in_doc[d]) <= MaxTokens
    /\ \A w \in DOMAIN st.posting_list :
           \A i \in 1..Len(st.posting_list[w]) :
               st.posting_list[w][i].freq \in 0..MaxTokens

\* any sequence of calls, each with at most MergeEntries elements
MergeCall ==
    \E word \in MergeWords, elements \in SeqsUpTo(Elements, MergeEntries) :
        \E out \in {add_docs(Self, has_attrs, arg_filter_stopwords, word, elements)} :
            /\ WithinBounds(out)
            /\ add_docs_to_word(word, elements, out)
            /\ ret' = [op |-> "add_docs_to_word", word |-> word, raised |-> out.raised]

\* the documents and the elements of the recorded call
CallDocs == {"d1", "d2"}

CallElements ==
    {Element(d, f) : d \in {PyStr(d) : d \in CallDocs} \cup {NoneValue}, f \in FreqValues}

\* the first call after the construction, its arguments kept with its outcome
RecordedCall ==
    /\ ret.op = "__init__"
    /\ \E word \in MergeWords, elements \in SeqsUpTo(CallElements, CallEntries) :
        \E out \in {add_docs(Self, has_attrs, arg_filter_stopwords, word, elements)} :
            /\ add_docs_to_word(word, elements, out)
            /\ ret' = [op |-> "add_docs_to_word", word |-> word,
                       posting_list |-> elements, raised |-> out.raised]

-----------------------------------------------------------------------------
(* methods.py: probabilisticModel *)

RECURSIVE GCD(_, _)
GCD(a, b) == IF b = 0 THEN a ELSE GCD(b, a % b)

\* the score log10(num/den), with num/den a positive fraction in lowest terms
Score(num, den) == [num |-> num \div GCD(num, den), den |-> den \div GCD(num, den)]

ZeroScore == Score(1, 1)

IsPositive(score) == score.num > score.den

IsNegative(score) == score.num < score.den

\* line 32: n_i
n_containing_word(word) == get_n_docs_containing(word).value

\* lines 28, 34: r_i, the relevant docs that contain the word, with repetitions
n_relevant_containing_word(word, relevant) ==
    Len(get_intersection(relevant, get_doc_list(word).value))

\* n_i stays in the numerator whatever its size
n_containing_word_kept(word) == n_containing_word(word)

\* line 65: n_i is removed from the numerator when n_i > N/2
n_containing_word_num(word) ==
    IF 2 * n_containing_word(word) <= get_n_docs THEN n_containing_word(word) ELSE 0

\* lines 69-71 times four: (x + 0.5) is (2x + 1)/2, and the halves cancel
numerator(word, relevant) ==
    LET r == n_relevant_containing_word(word, relevant)
    IN (2 * r + 1) * (2 * (get_n_docs - n_containing_word_num(word) - Len(relevant) + r) + 1)

denominator(word, relevant) ==
    LET r == n_relevant_containing_word(word, relevant)
    IN (2 * (Len(relevant) - r) + 1) * (2 * (n_containing_word(word) - r) + 1)

Abs(n) == IF n < 0 THEN -n ELSE n

\* lines 64-72: acc + log10(numerator/denominator); log10 of a negative
\* number raises ValueError
similarity_i(acc, cur, relevant) ==
    IF acc.raised # "none" THEN acc
    ELSE LET num == numerator(cur, relevant)
             den == denominator(cur, relevant)
         IN IF (num < 0) # (den < 0) THEN Raise("ValueError")
            ELSE Return(Score(acc.value.num * Abs(num), acc.value.den * Abs(den)))

RECURSIVE reduce_similarity(_, _, _)
reduce_similarity(words, relevant, i) ==
    IF i = 0 THEN Return(ZeroScore)
    ELSE similarity_i(reduce_similarity(words, relevant, i - 1), words[i], relevant)

\* every query token is scored for every document
scored_tokens_all(q, doc) == q

\* the query tokens line 75 sums over
scored_tokens(q, doc) == get_intersection(q, doc)

\* lines 36-75
similarity(q, relevant, doc) ==
    LET words == scored_tokens(q, doc)
    IN reduce_similarity(words, relevant, Len(words))

\* the documents of the returned dict
returned_docs(sims) == DOMAIN sims

\* line 79: the dict comprehension inserts the documents in the order of
\* index.get_all_docs(), which is the order the returned dict enumerates
returned_order == [i \in 1..Len(get_all_docs) |-> get_all_docs[i][1]]

\* lines 24-79
probabilisticModel(q, relevant) ==
    LET sims == [d \in DOMAIN words_in_doc |-> similarity(q, relevant, words_in_doc[d])]
    IN IF \E i \in 1..Len(q) : get_doc_list(q[i]).raised # "none" THEN Raise("TypeError")
       ELSE IF \E d \in DOMAIN sims : sims[d].raised # "none" THEN Raise("ValueError")
       ELSE Return([d \in returned_docs(sims) |-> sims[d].value])

QueryWords == {"cat", "the", "dog"}

Queries == SeqsUpTo(QueryWords, MaxQuery)

\* the documents of the corpora the rankers run on
RankedDocs == <<"d1", "d2", "d3">>

RelevantLists == SeqsUpTo(Range(RankedDocs), MaxRelevant)

ProbabilisticModel ==
    /\ constructed
    /\ \E out \in {probabilisticModel(query, relevant_docs)} :
           ret' = [op |-> "probabilisticModel", raised |-> out.raised, out |-> out]
    /\ UNCHANGED <<input_vars, constructed, index_vars, tdm_builds>>

-----------------------------------------------------------------------------
(* methods.py: vectorialModel *)

\* the float (1 + log2(tf)) * log2(n / ni), kept as its integer operands
Weight(tf, n, ni) == [tf |-> tf, n |-> n, ni |-> ni]

\* an entry of the sparse matrix that no assignment set: 0.0
NoWeight == [tf |-> 0, n |-> 1, ni |-> 1]

\* lines 106-124 for one word: the exception its row raises, "none" without one.
\* number_of_documents/ni divides by zero, math.log2 raises ValueError on an
\* argument <= 0, node["doc"] raises TypeError on a string
row_error(word) ==
    LET postings == get_posting_list(word).value
        ni == get_n_docs_containing(word).value
        bad == {k \in 1..Len(postings) : postings[k].type = "str" \/ postings[k].freq <= 0}
    IN IF ni = 0 THEN "ZeroDivisionError"
       ELSE IF get_n_docs = 0 THEN "ValueError"
       ELSE IF bad = {} THEN "none"
       ELSE LET k == CHOOSE x \in bad : \A y \in bad : x <= y
            IN IF postings[k].type = "str" THEN "TypeError" ELSE "ValueError"

\* lines 106-124: the exception of the first row that raises one
RECURSIVE tdm_error(_, _)
tdm_error(unique_words, i) ==
    IF i > Len(unique_words) THEN "none"
    ELSE IF row_error(unique_words[i]) # "none" THEN row_error(unique_words[i])
    ELSE tdm_error(unique_words, i + 1)

\* line 124: the column tdm[i, docId] names; docId -1 of a document without an
\* id is the last column
column(docId) == IF docId < 0 THEN get_n_docs + docId ELSE docId

\* lines 102-124: the matrix, row i for unique_words[i], column j for the
\* document of id j; the last posting of a document sets its entry
tdm_of(unique_words) ==
    [i \in 1..Len(unique_words) |->
        [j \in 0..(get_n_docs - 1) |->
            LET postings == get_posting_list(unique_words[i]).value
                hits == {k \in 1..Len(postings) :
                            column(get_doc_id(postings[k].doc).value) = j}
            IN IF hits = {} THEN NoWeight
               ELSE LET k == CHOOSE x \in hits : \A y \in hits : y <= x
                    IN Weight(postings[k].freq, get_n_docs, Len(postings))]]

\* lines 128-129: norm[j] is the Euclidean length of column j, kept as the
\* column it is the length of
norm_of(tdm) == [j \in 0..(get_n_docs - 1) |-> [i \in DOMAIN tdm |-> tdm[i][j]]]

\* lines 132-139
query_vector_of(q, unique_words) ==
    [i \in 1..Len(unique_words) |->
        IF unique_words[i] \in Range(q)
        THEN Weight(Count(q, unique_words[i]), get_n_docs,
                    get_n_docs_containing(unique_words[i]).value)
        ELSE NoWeight]

\* line 145: np.dot(query_vector); numpy.dot takes two operands and raises
\* TypeError when it is given one
np_dot(operands) ==
    IF Len(operands) = 2 THEN Return(operands) ELSE Raise("TypeError")

\* lines 142-148: the loop raises at its first document; without documents
\* the answer is empty and line 148 sorts nothing
rank_documents(query_vector, norm) ==
    IF get_n_docs >= 1 THEN Raise(np_dot(<<query_vector>>).raised)
    ELSE Return(<<>>)

\* lines 96-129 have run to their end: the matrix of the call is built
builds_tdm == has_attrs /\ tdm_error(all_words, 1) = "none"

\* lines 96-148
vectorialModel(q) ==
    IF ~has_attrs THEN Raise("AttributeError")
    ELSE IF tdm_error(all_words, 1) # "none" THEN Raise(tdm_error(all_words, 1))
    ELSE rank_documents(query_vector_of(q, all_words), norm_of(tdm_of(all_words)))

\* calls of vectorialModel on the same index, at most MaxBuilds matrices built
VectorialModel ==
    /\ constructed
    /\ tdm_builds < MaxBuilds
    /\ \E out \in {vectorialModel(query)} :
           ret' = [op |-> "vectorialModel", raised |-> out.raised, out |-> out,
                   tdm |-> IF builds_tdm THEN tdm_of(all_words) ELSE <<>>]
    /\ tdm_builds' = tdm_builds + (IF builds_tdm THEN 1 ELSE 0)
    /\ UNCHANGED <<input_vars, constructed, index_vars>>

-----------------------------------------------------------------------------
(* query_expansion.py: implicit_feedback *)

\* lines 24-30: the frequency of each word of the vocabulary in each document
\* of the ranking
term_doc_matrix(vocabulary, ranking) ==
    [i \in 1..Len(vocabulary) |->
        [j \in 1..Len(ranking) |-> get_frequency_in_doc(vocabulary[i], ranking[j]).value]]

RECURSIVE dot_product(_, _, _)
dot_product(row_u, row_v, j) ==
    IF j = 0 THEN 0 ELSE row_u[j] * row_v[j] + dot_product(row_u, row_v, j - 1)

\* lines 32-39: term_doc_matrix.dot(transposed_tdm)
term_term_correlation_matrix(tdm) ==
    [u \in DOMAIN tdm |-> [v \in DOMAIN tdm |-> dot_product(tdm[u], tdm[v], Len(tdm[u]))]]

\* c[u, u] + c[v, v] - 2*c[u, v]
correlation_denominator_twice(c, u, v) == c[u][u] + c[v][v] - 2 * c[u][v]

\* line 47: the divisor
correlation_denominator(c, u, v) == c[u][u] + c[v][v] - c[u][v]

\* lines 42-47: c[u, v]/(c[u, u] + c[v, v] - c[u, v]), a quotient of floats kept
\* as the fraction num/den; a den of 0 makes the float nan or inf
normalized_correlation_matrix(c) ==
    [u \in DOMAIN c |-> [v \in DOMAIN c |->
        [num |-> c[u][v], den |-> correlation_denominator(c, u, v)]]]

\* the order of two correlations
CorrLess(a, b) == a.num * b.den < b.num * a.den

\* retrieved_vocabulary.index(token)
index_of(list, e) == CHOOSE i \in 1..Len(list) : list[i] = e /\ \A k \in 1..(i - 1) : list[k] # e

\* lines 61-71: the words other than the token, in the order of the
\* vocabulary, each with its correlation with the token
raw_of(token, vocabulary, normalized) ==
    LET others == SelectSeq([v \in 1..Len(vocabulary) |-> v],
                            LAMBDA v : vocabulary[v] # token)
    IN [k \in 1..Len(others) |->
           [word |-> vocabulary[others[k]],
            correlation |-> normalized[index_of(vocabulary, token)][others[k]]]]

\* sorted(token, key=lambda e: e['correlation']): a stable sort by
\* increasing correlation
RECURSIVE insert_by_correlation(_, _)
insert_by_correlation(s, e) ==
    IF s = <<>> THEN <<e>>
    ELSE IF CorrLess(e.correlation, Head(s).correlation) THEN <<e>> \o s
    ELSE <<Head(s)>> \o insert_by_correlation(Tail(s), e)

RECURSIVE sorted_by_correlation(_)
sorted_by_correlation(s) ==
    IF s = <<>> THEN <<>>
    ELSE insert_by_correlation(sorted_by_correlation(SubSeq(s, 1, Len(s) - 1)), s[Len(s)])

\* list[:N]
slice_to(list, N) ==
    SubSeq(list, 1, IF N >= 0 THEN (IF N < Len(list) THEN N ELSE Len(list))
                    ELSE (IF Len(list) + N > 0 THEN Len(list) + N ELSE 0))

\* lines 73-80: the words selected for each token of the query that is in the
\* vocabulary
selected_words(q, vocabulary, normalized, N) ==
    LET tokens == SelectSeq(q, LAMBDA t : t \in Range(vocabulary))
    IN [k \in 1..Len(tokens) |->
           LET ranked == sorted_by_correlation(raw_of(tokens[k], vocabulary, normalized))
           IN slice_to([i \in 1..Len(ranked) |-> ranked[i].word], N)]

\* reduce(lambda acc, cur: acc + cur, list_of_lists, [])
RECURSIVE concat(_)
concat(lists) == IF lists = <<>> THEN <<>> ELSE Head(lists) \o concat(Tail(lists))

\* util.py extract_lists
extract_lists(lists) == Sorted(concat(lists))

\* the expansions alone, without repetitions
expanded_query_deduplicated(q, expansions) == SortedSet(Range(q \o expansions))

\* line 83: sorted(query + get_expansions(N))
expanded_query(q, expansions) == Sorted(q \o expansions)

\* lines 21-83, for the order list(set(...)) gave the vocabulary; line 30
\* raises KeyError on a document of the ranking that is not indexed
implicit_feedback(q, ranking, N, vocabulary) ==
    IF vocabulary # <<>> /\ \E j \in 1..Len(ranking) : ranking[j] \notin DOMAIN words_in_doc
    THEN [raised |-> "KeyError", value |-> <<>>, normalized |-> <<>>, selected |-> <<>>]
    ELSE LET c == term_term_correlation_matrix(term_doc_matrix(vocabulary, ranking))
             normalized == normalized_correlation_matrix(c)
             selected == selected_words(q, vocabulary, normalized, N)
         IN [raised |-> "none",
             value |-> expanded_query(q, extract_lists(selected)),
             normalized |-> normalized,
             selected |-> selected]

\* the documents a ranking names and the widths of an expansion
RankingDocs == {"d1", "d2"}

Rankings == SeqsUpTo(RankingDocs, MaxRanking)

Widths == 0..MaxWidth

\* the expansion of the query that follows the construction
ImplicitFeedback ==
    /\ ret.op = "__init__"
    /\ \E ranking \in Rankings, N \in Widths :
           \E vocabulary \in get_all_words_in_docs(Range(ranking)) :
               \E out \in {implicit_feedback(query, ranking, N, vocabulary.value)} :
                   ret' = [op |-> "implicit_feedback", ranking |-> ranking, N |-> N,
                           vocabulary |-> vocabulary.value, raised |-> out.raised,
                           out |-> out]
    /\ UNCHANGED <<input_vars, constructed, index_vars, tdm_builds>>

-----------------------------------------------------------------------------
(* main.py: loadTDM *)

\* lines 17-31: line 18 reads index.filter_stopwords, an attribute only after
\* a complete construction; with the cache file the matrix is loaded from it;
\* without it line 26 calls index.get_tdm(), a method the class Index does
\* not have
loadTDM(exists_cache) ==
    IF ~has_attrs THEN Raise("AttributeError")
    ELSE IF exists_cache THEN Return("npz")
    ELSE Raise("AttributeError")

\* isfile(fname) is the environment's choice
LoadTDM ==
    /\ constructed
    /\ \E exists_cache \in BOOLEAN : \E out \in {loadTDM(exists_cache)} :
           ret' = [op |-> "loadTDM", raised |-> out.raised, out |-> out]
    /\ UNCHANGED <<input_vars, constructed, index_vars, tdm_builds>>

-----------------------------------------------------------------------------
(* Specifications *)

InitIndexVars ==
    /\ constructed = FALSE
    /\ words_in_doc = <<>>
    /\ doc_id = <<>>
    /\ posting_list = <<>>
    /\ all_words = <<>>
    /\ has_attrs = FALSE
    /\ tdm_builds = 0
    /\ ret = [op |-> "none", raised |-> "none"]

\* construction of an index from any corpus, followed by reads
Init ==
    /\ database_contents \in Corpora
    /\ arg_filter_stopwords \in BOOLEAN
    /\ arg_stem_words \in BOOLEAN
    /\ query = <<>>
    /\ relevant_docs = <<>>
    /\ InitIndexVars

Next ==
    \/ IndexInit
    \/ ReadAccessor

Spec == Init /\ [][Next]_vars

\* construction of an index from any corpus
NextInit == IndexInit

SpecInit == Init /\ [][NextInit]_vars

\* the corpora of the first k ranked documents, each a text of RankedWords
RankedWords == {"The", "cat"}

TextCorpora ==
    UNION {[{RankedDocs[i] : i \in 1..k} -> {Text(t) : t \in SeqsUpTo(RankedWords, RankedLen)}] :
              k \in 0..Len(RankedDocs)}

\* construction from a corpus of texts, then the probabilistic ranker on a
\* query and a list of relevant documents
InitProb ==
    /\ database_contents \in TextCorpora
    /\ arg_filter_stopwords = FALSE
    /\ arg_stem_words = FALSE
    /\ query \in Queries
    /\ relevant_docs \in RelevantLists
    /\ InitIndexVars

NextProb ==
    \/ IndexInit
    \/ ProbabilisticModel

SpecProb == InitProb /\ [][NextProb]_vars

\* the corpus of the concrete scenario
ScenarioCorpus ==
    [d \in {"d1", "d2"} |->
        IF d = "d1" THEN Text(<<"the", "cat", "sat">>)
        ELSE Text(<<"the", "dog", "sat", "on", "the", "mat">>)]

\* construction from a corpus of texts, then both rankers on a query
InitRank ==
    /\ database_contents \in TextCorpora \cup {ScenarioCorpus}
    /\ arg_filter_stopwords = FALSE
    /\ arg_stem_words = FALSE
    /\ query \in Queries
    /\ relevant_docs \in RelevantLists
    /\ InitIndexVars

NextRank ==
    \/ IndexInit
    \/ ProbabilisticModel
    \/ VectorialModel
    \/ LoadTDM

SpecRank == InitRank /\ [][NextRank]_vars

\* the texts of the corpora a query is expanded on
ExpansionTexts == {<<>>, <<"dog">>, <<"cat", "The">>, <<"cat", "cat", "dog">>}

\* the queries that are expanded
ExpansionQueries == SeqsUpTo({"cat", "dog"}, MaxQuery)

ExpansionCorpora ==
    UNION {[{RankedDocs[i] : i \in 1..k} -> {Text(t) : t \in ExpansionTexts}] : k \in 0..2}

\* construction from a corpus of texts, then expansions of a query
InitExpand ==
    /\ database_contents \in ExpansionCorpora
    /\ arg_filter_stopwords = FALSE
    /\ arg_stem_words = FALSE
    /\ query \in ExpansionQueries
    /\ relevant_docs = <<>>
    /\ InitIndexVars

NextExpand ==
    \/ IndexInit
    \/ ImplicitFeedback

SpecExpand == InitExpand /\ [][NextExpand]_vars

MergeCorpora == UNION {[S -> {Text(t) : t \in SeqsUpTo(RawWords, MergeLen)} \cup {NotText}] :
                          S \in SUBSET DocNames}

\* construction followed by any sequence of add_docs_to_word calls
InitMerge ==
    /\ database_contents \in MergeCorpora
    /\ arg_filter_stopwords \in BOOLEAN
    /\ arg_stem_words \in BOOLEAN
    /\ query = <<>>
    /\ relevant_docs = <<>>
    /\ InitIndexVars

NextMerge ==
    \/ IndexInit
    \/ MergeCall

SpecMerge == InitMerge /\ [][NextMerge]_vars

CallCorpora ==
    UNION {[S -> {Text(t) : t \in SeqsUpTo({"The", "cat"}, 1)} \cup {NotText}] :
              S \in SUBSET CallDocs}

\* construction followed by one add_docs_to_word call
InitCall ==
    /\ database_contents \in CallCorpora
    /\ arg_filter_stopwords \in BOOLEAN
    /\ arg_stem_words = FALSE
    /\ query = <<>>
    /\ relevant_docs = <<>>
    /\ InitIndexVars

NextCall ==
    \/ IndexInit
    \/ RecordedCall

SpecCall == InitCall /\ [][NextCall]_vars

-----------------------------------------------------------------------------
(* Properties of the construction *)

AllText == \A d \in DOMAIN database_contents : database_contents[d].type = "str"

Terms == {"cat", "cats", "the", "dog"}

\* the positions of the entries for doc in a posting list
EntriesFor(nodes, doc) == {i \in 1..Len(nodes) : nodes[i].doc = doc}

RECURSIVE TotalCount(_, _)
TotalCount(docs, t) ==
    IF docs = {} THEN 0
    ELSE LET d == CHOOSE x \in docs : TRUE
         IN Count(words_in_doc[d], t) + TotalCount(docs \ {d}, t)

\* C1: after the construction from a corpus of texts, every document is
\* indexed with its parsed tokens, and for every term t and document d the
\* posting list of t has an entry for d iff t occurs in the tokens of d, that
\* entry is the only one for d and its freq is the number of occurrences of t
\* in the tokens of d; the frequencies of t's postings sum to the occurrences
\* of t in all documents, and get_n_docs_containing(t) counts the documents
\* that contain t.
C1_PostingsMatchTokens ==
    (constructed /\ AllText) =>
        /\ DOMAIN words_in_doc = DOMAIN database_contents
        /\ \A d \in DOMAIN words_in_doc :
               words_in_doc[d] = parse_text(database_contents[d].text,
                                            arg_filter_stopwords, arg_stem_words)
        /\ \A t \in Terms \cup DOMAIN posting_list :
               LET nodes == get_posting_list(t).value
               IN /\ \A i \in 1..Len(nodes) : nodes[i].doc \in DOMAIN words_in_doc
                  /\ \A d \in DOMAIN words_in_doc :
                         /\ (EntriesFor(nodes, d) # {}) <=> (t \in Range(words_in_doc[d]))
                         /\ Cardinality(EntriesFor(nodes, d)) <= 1
                         /\ \A i \in EntriesFor(nodes, d) :
                                nodes[i].freq = Count(words_in_doc[d], t)
                  /\ get_total_freq(t) = Return(TotalCount(DOMAIN words_in_doc, t))
                  /\ get_n_docs_containing(t) =
                         Return(Cardinality({d \in DOMAIN words_in_doc :
                                                t \in Range(words_in_doc[d])}))

\* a term that occurs twice in the first of two documents that contain it
C1_Witness ==
    /\ constructed
    /\ AllText
    /\ \E t \in DOMAIN posting_list :
           /\ Len(posting_list[t]) = 2
           /\ posting_list[t][1].freq = 2
           /\ posting_list[t][2].freq = 1

\* C6: the construction from a corpus with a value that is not text raises
\* InvalidDocument.
C6_InvalidDocumentSignalled ==
    (ret.op = "__init__" /\ ~AllText) => ret.raised = "InvalidDocument"

-----------------------------------------------------------------------------
(* Properties of the read accessors *)

\* the value an accessor returns for a key that is not in the index
Sentinel(op) ==
    CASE op \in {"get_posting_list", "get_doc_list", "get_words_in_doc",
                 "get_all_words_in_docs"} -> Return(<<>>)
      [] op \in {"get_n_docs_containing", "get_n_different_words", "get_total_freq",
                 "get_frequency_in_doc"} -> Return(0)
      [] op = "get_doc_id" -> Return(-1)
      [] op = "get_doc_name" -> Return("")

TermAccessors == {"get_posting_list", "get_doc_list", "get_n_docs_containing", "get_total_freq"}

DocAccessors == {"get_words_in_doc", "get_n_different_words", "get_doc_id"}

\* the last call read a term, a document or an id that is not in the index
UnknownKeyRead ==
    \/ ret.op \in TermAccessors /\ ret.arg \notin DOMAIN posting_list
    \/ ret.op \in DocAccessors /\ ret.arg \notin DOMAIN words_in_doc
    \/ ret.op = "get_doc_name" /\ \A d \in DOMAIN doc_id : doc_id[d] # ret.arg
    \/ ret.op = "get_frequency_in_doc" /\ ret.arg[2] \notin DOMAIN words_in_doc
    \/ ret.op = "get_all_words_in_docs" /\ Range(ret.arg) \cap DOMAIN words_in_doc = {}

\* C7: a read accessor called with a term or a document that is not in the
\* index returns its empty or zero sentinel and does not raise.
C7_UnknownKeyReturnsSentinel ==
    UnknownKeyRead => ret.out = Sentinel(ret.op)

\* C8: get_doc_id maps the indexed documents one-to-one onto 0..docCount-1
\* and get_doc_name is its inverse.
C8_DocNameInvertsDocId ==
    constructed =>
        /\ \A i \in 0..(get_n_docs - 1) : \E d \in DOMAIN doc_id : get_doc_id(d) = Return(i)
        /\ \A d \in DOMAIN words_in_doc : get_doc_id(d).value \in 0..(get_n_docs - 1)
        /\ \A d \in DOMAIN words_in_doc : get_doc_name(get_doc_id(d).value) = Return(d)
        /\ \A i \in 0..(get_n_docs - 1) :
               get_doc_name(i).value \in DOMAIN doc_id
                   /\ get_doc_id(get_doc_name(i).value) = Return(i)

-----------------------------------------------------------------------------
(* Properties of add_docs_to_word *)

WellTyped(element) == element.doc.type = "str" /\ element.freq.type = "int"

\* C2: after the construction, and after a call whose well-typed entries have
\* a frequency >= 1, every posting list holds posting entries only, sorted by
\* document name with at most one entry per document, each with a
\* frequency >= 1.
C2_PostingListsWellFormed ==
    (\/ ret.op = "__init__"
     \/ /\ ret.op = "add_docs_to_word"
        /\ \A i \in 1..Len(ret.posting_list) :
               WellTyped(ret.posting_list[i]) => ret.posting_list[i].freq.int >= 1)
    => \A w \in DOMAIN posting_list :
           LET nodes == posting_list[w]
           IN /\ \A i \in 1..Len(nodes) : nodes[i].type = "dict" /\ nodes[i].freq >= 1
              /\ \A i \in 1..Len(nodes) : \A j \in 1..Len(nodes) :
                     i < j => Ord(nodes[i].doc) < Ord(nodes[j].doc)

\* C3: after a complete construction and after every call that returns,
\* every term that has a posting list is in the vocabulary that
\* get_all_words returns.
C3_PostedTermsInVocabulary ==
    (has_attrs /\ ret.raised = "none") =>
        \A w \in DOMAIN posting_list : w \in Range(get_all_words.value)

\* the frequency the posting list gives a document, 0 without an entry
FreqIn(nodes, doc) ==
    IF EntriesFor(nodes, doc) = {} THEN 0
    ELSE nodes[CHOOSE i \in EntriesFor(nodes, doc) : TRUE].freq

\* C4: after a call with a well-typed entry (doc, freq >= 1) for a term that is
\* not an ignored stopword, on a completely built index that has documents,
\* the call has completed, doc has a token list and an ordinal id, and the
\* frequency of the term's posting entry for doc is the count of the term in
\* the token list of doc.
C4_MergedFrequencyMatchesTokens ==
    (/\ ret.op = "add_docs_to_word"
     /\ has_attrs
     /\ ~(ret.word \in STOP_WORDS /\ arg_filter_stopwords)
     /\ DOMAIN database_contents # {})
    => \A i \in 1..Len(ret.posting_list) :
           LET element == ret.posting_list[i]
               doc == element.doc.str
           IN (WellTyped(element) /\ element.freq.int >= 1) =>
                  /\ ret.raised = "none"
                  /\ doc \in DOMAIN words_in_doc
                  /\ doc \in DOMAIN doc_id
                  /\ ret.word \in DOMAIN posting_list
                  /\ FreqIn(get_posting_list(ret.word).value, doc) >= element.freq.int
                  /\ FreqIn(get_posting_list(ret.word).value, doc)
                         = Count(words_in_doc[doc], ret.word)

\* C5: a call leaves the index, and raises, exactly as the same call without
\* its malformed entries (non-string doc or non-integer freq) does: each
\* malformed entry is skipped without a change and without ending the call,
\* and the well-formed entries before and after it are applied.
C5_MalformedEntriesSkipped ==
    [][(ret.op = "__init__" /\ ret'.op = "add_docs_to_word") =>
           LET expected == add_docs(Self, has_attrs, arg_filter_stopwords, ret'.word,
                                    SelectSeq(ret'.posting_list, WellTyped))
           IN /\ words_in_doc' = expected.words_in_doc
              /\ doc_id' = expected.doc_id
              /\ posting_list' = expected.posting_list
              /\ ret'.raised = expected.raised]_vars

\* a completed call that skipped a malformed entry between two well-formed
\* entries, or before one, and counted the entry after it
C5_Witness ==
    /\ ret.op = "add_docs_to_word"
    /\ ret.raised = "none"
    /\ Len(ret.posting_list) = 2
    /\ ~WellTyped(ret.posting_list[1])
    /\ WellTyped(ret.posting_list[2])
    /\ ret.posting_list[2].freq.int = 2
    /\ ret.word \in DOMAIN posting_list
    /\ FreqIn(posting_list[ret.word], ret.posting_list[2].doc.str) = 2
    /\ Count(words_in_doc[ret.posting_list[2].doc.str], ret.word) = 2

-----------------------------------------------------------------------------
(* Properties of probabilisticModel *)

\* the query without the repetitions of its terms
RECURSIVE Distinct(_)
Distinct(q) ==
    IF q = <<>> THEN <<>>
    ELSE LET rest == Distinct(SubSeq(q, 1, Len(q) - 1))
         IN IF q[Len(q)] \in Range(rest) THEN rest ELSE Append(rest, q[Len(q)])

\* C9: the scores of a query are the scores of its distinct terms: a term
\* repeated in the query does not change the score of any document.
C9_RepeatedQueryTermIgnored ==
    ret.op = "probabilisticModel" =>
        ret.out = probabilisticModel(Distinct(query), relevant_docs)

\* C10: the output holds exactly the indexed documents whose score is
\* strictly positive.
C10_OnlyPositiveScoresReturned ==
    (ret.op = "probabilisticModel" /\ ret.raised = "none") =>
        \A d \in DOMAIN words_in_doc :
            (d \in DOMAIN ret.out.value) <=>
                IsPositive(similarity(query, relevant_docs, words_in_doc[d]).value)

\* a list of indexed documents without repetitions
RelevantIndexed(relevant) ==
    /\ Range(relevant) \subseteq DOMAIN words_in_doc
    /\ \A i \in 1..Len(relevant) : \A j \in 1..Len(relevant) :
           i # j => relevant[i] # relevant[j]

\* the query without the occurrences of a word
Without(q, word) == SelectSeq(q, LAMBDA e : e # word)

\* C12: on an index with a document, for a list R of distinct indexed
\* documents, the ranker returns (no ZeroDivisionError, no ValueError of
\* log10); for every document and every query term scored for it, the two
\* factors of the numerator and the two factors of the denominator (each
\* doubled) are strictly positive; and a query term with n_t = 0 adds nothing
\* to any score: the output is the output of the query without that term.
C12_FactorsPositive ==
    (ret.op = "probabilisticModel" /\ get_n_docs >= 1 /\ RelevantIndexed(relevant_docs)) =>
        /\ ret.raised = "none"
        /\ \A d \in DOMAIN words_in_doc :
               \A t \in Range(scored_tokens(query, words_in_doc[d])) :
                   LET n == n_containing_word(t)
                       r == n_relevant_containing_word(t, relevant_docs)
                       R == Len(relevant_docs)
                   IN /\ 2 * r + 1 > 0
                      /\ 2 * (get_n_docs - n_containing_word_num(t) - R + r) + 1 > 0
                      /\ 2 * (R - r) + 1 > 0
                      /\ 2 * (n - r) + 1 > 0
        /\ \A t \in Range(query) :
               n_containing_word(t) = 0 =>
                   ret.out = probabilisticModel(Without(query, t), relevant_docs)

\* the ranker has run on a query with a term of no document and a term of a
\* relevant document, on an index of several documents
C12_Witness ==
    /\ ret.op = "probabilisticModel"
    /\ ret.raised = "none"
    /\ get_n_docs >= 2
    /\ relevant_docs # <<>>
    /\ RelevantIndexed(relevant_docs)
    /\ \E t \in Range(query) : n_containing_word(t) = 0
    /\ \E t \in Range(query) : n_relevant_containing_word(t, relevant_docs) >= 1
    /\ \E d \in DOMAIN ret.out.value : IsPositive(ret.out.value[d])

\* the term is in half of the documents or in all of them
HalfOrAll(t) ==
    \/ 2 * n_containing_word(t) = get_n_docs
    \/ n_containing_word(t) = get_n_docs

\* C21: without relevant documents the ranker returns and no document has a
\* negative score; for every query term t scored for a document the
\* contribution is log10((N - n_t' + 0.5)/(n_t + 0.5)), with n_t' = n_t when
\* n_t <= N/2 and 0 otherwise, its argument is >= 1, and it is 0 exactly when
\* n_t = N/2 or n_t = N; a document whose scored terms are all such terms
\* scores 0.
C21_EmptyRelevantNonNegative ==
    (ret.op = "probabilisticModel" /\ relevant_docs = <<>>) =>
        /\ ret.raised = "none"
        /\ \A d \in DOMAIN words_in_doc :
               LET scored == Range(scored_tokens(query, words_in_doc[d]))
               IN /\ d \in DOMAIN ret.out.value
                  /\ ~IsNegative(ret.out.value[d])
                  /\ \A t \in scored :
                         LET n == n_containing_word(t)
                             N == get_n_docs
                             kept == IF 2 * n <= N THEN n ELSE 0
                             contribution == similarity(<<t>>, <<>>, words_in_doc[d]).value
                         IN /\ contribution = Score(2 * (N - kept) + 1, 2 * n + 1)
                            /\ contribution.num >= contribution.den
                            /\ (contribution = ZeroScore) <=> HalfOrAll(t)
                  /\ (\A t \in scored : HalfOrAll(t)) => ret.out.value[d] = ZeroScore

\* without relevant documents, a document that holds a query term found in
\* half of the documents has been scored 0
C21_Witness ==
    /\ ret.op = "probabilisticModel"
    /\ ret.raised = "none"
    /\ relevant_docs = <<>>
    /\ get_n_docs = 2
    /\ \E d \in DOMAIN words_in_doc :
           /\ \E t \in Range(scored_tokens(query, words_in_doc[d])) :
                  2 * n_containing_word(t) = get_n_docs
           /\ ret.out.value[d] = ZeroScore

-----------------------------------------------------------------------------
(* Properties of the rankers' outputs *)

\* log10 scores in increasing order
ScoreLess(a, b) == a.num * b.den < b.num * a.den

\* a similarity dot/sqrt(normsq) of integer weights, and the order of two
SimLess(a, b) == a.dot * a.dot * b.normsq < b.dot * b.dot * a.normsq

\* C11: the output of each ranker is ordered by descending score, and
\* documents of equal score are in ascending order of their names.
C11_OutputByDescendingScore ==
    /\ ret.op = "probabilisticModel" =>
           /\ ret.raised = "none"
           /\ \A i \in 1..Len(returned_order) : \A j \in 1..Len(returned_order) :
                  i < j =>
                      LET a == ret.out.value[returned_order[i]]
                          b == ret.out.value[returned_order[j]]
                      IN /\ ~ScoreLess(a, b)
                         /\ a = b => Ord(returned_order[i]) < Ord(returned_order[j])
    /\ ret.op = "vectorialModel" =>
           /\ ret.raised = "none"
           /\ \A i \in 1..Len(ret.out.value) : \A j \in 1..Len(ret.out.value) :
                  i < j =>
                      /\ ~SimLess(ret.out.value[i][2], ret.out.value[j][2])
                      /\ ret.out.value[i][2] = ret.out.value[j][2] =>
                             Ord(ret.out.value[i][1]) < Ord(ret.out.value[j][1])

\* C13: on the scenario corpus, without stopword filter and stemming, the
\* probabilistic ranker with the query ["cat"] and no relevant document returns
\* a non-empty output whose first document is d1, with a score that is
\* strictly positive and strictly greater than the score of d2.
C13_ScenarioTopIsD1 ==
    (/\ ret.op = "probabilisticModel"
     /\ database_contents = ScenarioCorpus
     /\ query = <<"cat">>
     /\ relevant_docs = <<>>)
    => /\ ret.raised = "none"
       /\ DOMAIN ret.out.value # {}
       /\ returned_order[1] = "d1"
       /\ IsPositive(ret.out.value["d1"])
       /\ ScoreLess(ret.out.value["d2"], ret.out.value["d1"])

-----------------------------------------------------------------------------
(* Properties of vectorialModel *)

\* the output is a list of pairs (document, similarity)
OutputDocs == [k \in 1..Len(ret.out.value) |-> ret.out.value[k][1]]

\* a similarity dot/sqrt(normsq) above the relevance threshold 1/100
AboveThreshold(sim) == sim.dot > 0 /\ 10000 * sim.dot * sim.dot > sim.normsq

\* C14: the vector-space ranker returns, and no document of its output has a
\* similarity at or below the relevance threshold; a document that shares no
\* term with the query is absent; on the scenario corpus the query ["cat"]
\* returns exactly [d1].
C14_BelowThresholdAbsent ==
    ret.op = "vectorialModel" =>
        /\ ret.raised = "none"
        /\ \A k \in 1..Len(ret.out.value) :
               /\ AboveThreshold(ret.out.value[k][2])
               /\ Range(query) \cap Range(words_in_doc[OutputDocs[k]]) # {}
        /\ (database_contents = ScenarioCorpus /\ query = <<"cat">>) =>
               OutputDocs = <<"d1">>

\* the weight is 0.0: the entry was never set, or log2(n/ni) = log2(1)
IsZeroWeight(w) == w.tf = 0 \/ w.n = w.ni

\* the column of the document in the matrix of the index has norm 0
ZeroNorm(doc) ==
    LET col == norm_of(tdm_of(all_words))[get_doc_id(doc).value]
    IN \A i \in DOMAIN col : IsZeroWeight(col[i])

\* C15: the vector-space ranker returns (no division by zero), and no
\* document whose column has norm 0 is in its output.
C15_ZeroNormExcluded ==
    ret.op = "vectorialModel" =>
        /\ ret.raised = "none"
        /\ \A k \in 1..Len(ret.out.value) : ~ZeroNorm(OutputDocs[k])

\* a similarity dot/sqrt(normsq) of integer weights that lies in [0, 1]
InUnitInterval(sim) == sim.dot >= 0 /\ sim.dot * sim.dot <= sim.normsq

\* C16: the vector-space ranker gives every document a similarity
\* dot(queryVector, docColumn)/norm(docColumn) that lies in [0, 1].
C16_SimilarityInUnitInterval ==
    (ret.op = "vectorialModel" /\ get_n_docs >= 1) =>
        /\ ret.raised = "none"
        /\ \A k \in 1..Len(ret.out.value) : InUnitInterval(ret.out.value[k][2])

-----------------------------------------------------------------------------
(* Properties of implicit_feedback *)

\* every document of the ranking of the last call is indexed
RankingIndexed == Range(ret.ranking) \subseteq DOMAIN words_in_doc

\* the words of the documents of the ranking of the last call
LocalVocabulary == words_in_docs(Range(ret.ranking))

\* C17: for a ranking of indexed documents and a width N >= 0,
\* implicit_feedback returns a sorted list that holds every term of the query
\* at least as many times as the query does; when no term of the query is in
\* the local vocabulary, the list has the length of the query, which makes it
\* the query sorted.
C17_ExpansionKeepsQuery ==
    (ret.op = "implicit_feedback" /\ RankingIndexed) =>
        /\ ret.raised = "none"
        /\ \A i \in 1..(Len(ret.out.value) - 1) :
               Ord(ret.out.value[i]) <= Ord(ret.out.value[i + 1])
        /\ \A t \in Range(query) : Count(ret.out.value, t) >= Count(query, t)
        /\ Range(query) \cap LocalVocabulary = {} => Len(ret.out.value) = Len(query)

\* an expansion that added words to a query with a repeated term
C17_Witness ==
    /\ ret.op = "implicit_feedback"
    /\ ret.raised = "none"
    /\ RankingIndexed
    /\ ret.N >= 1
    /\ \E t \in Range(query) : Count(query, t) = 2 /\ t \in LocalVocabulary
    /\ Len(ret.out.value) > Len(query)

\* the smaller of two numbers
Min(a, b) == IF a < b THEN a ELSE b

\* C18: for each term q of the query that is in the local vocabulary, the
\* words implicit_feedback selects for q are min(N, |localVocab| - 1) distinct
\* words of the local vocabulary other than q, and no word that is not
\* selected (other than q) has a strictly higher normalized correlation with q
\* than a selected one.
C18_HighestCorrelationSelected ==
    (ret.op = "implicit_feedback" /\ ret.raised = "none") =>
        LET V == ret.vocabulary
            tokens == SelectSeq(query, LAMBDA t : t \in Range(V))
            corr(q, w) == ret.out.normalized[index_of(V, q)][index_of(V, w)]
        IN /\ Len(ret.out.selected) = Len(tokens)
           /\ \A k \in 1..Len(tokens) :
                  LET sel == ret.out.selected[k]
                  IN /\ Len(sel) = Min(ret.N, Len(V) - 1)
                     /\ Cardinality(Range(sel)) = Len(sel)
                     /\ Range(sel) \subseteq Range(V) \ {tokens[k]}
                     /\ \A w \in Range(V) \ ({tokens[k]} \cup Range(sel)) :
                            \A x \in Range(sel) :
                                ~CorrLess(corr(tokens[k], x), corr(tokens[k], w))

\* C[u,v] of the documents of the ranking: the sum over them of the product
\* of the frequencies of the two words
RECURSIVE CoOccurrence(_, _, _)
CoOccurrence(ranking, u, v) ==
    IF ranking = <<>> THEN 0
    ELSE Count(words_in_doc[Head(ranking)], u) * Count(words_in_doc[Head(ranking)], v)
             + CoOccurrence(Tail(ranking), u, v)

\* C19: for a non-empty ranking of indexed documents and every pair of words
\* u, v of its local vocabulary, the normalized correlation is
\* C[u,v]/(C[u,u] + C[v,v] - C[u,v]) with C = M * M^T; its denominator is
\* strictly positive, its value lies in [0, 1], and it is 1 when u = v.
C19_CorrelationInUnitInterval ==
    (ret.op = "implicit_feedback" /\ ret.ranking # <<>> /\ RankingIndexed) =>
        /\ ret.raised = "none"
        /\ Range(ret.vocabulary) = LocalVocabulary
        /\ \A u \in 1..Len(ret.vocabulary) : \A v \in 1..Len(ret.vocabulary) :
               LET x == ret.out.normalized[u][v]
                   Cuv == CoOccurrence(ret.ranking, ret.vocabulary[u], ret.vocabulary[v])
                   Cuu == CoOccurrence(ret.ranking, ret.vocabulary[u], ret.vocabulary[u])
                   Cvv == CoOccurrence(ret.ranking, ret.vocabulary[v], ret.vocabulary[v])
               IN /\ x.num = Cuv
                  /\ x.den = Cuu + Cvv - Cuv
                  /\ x.den > 0
                  /\ 0 <= x.num /\ x.num <= x.den
                  /\ u = v => x.num = x.den

\* a ranking of two documents whose local vocabulary has a pair of words of
\* correlation 0 and a pair of correlation strictly between 0 and 1
C19_Witness ==
    /\ ret.op = "implicit_feedback"
    /\ ret.raised = "none"
    /\ RankingIndexed
    /\ Len(ret.ranking) = 2
    /\ \E u \in 1..Len(ret.vocabulary) : \E v \in 1..Len(ret.vocabulary) :
           ret.out.normalized[u][v].num = 0
    /\ \E u \in 1..Len(ret.vocabulary) : \E v \in 1..Len(ret.vocabulary) :
           LET x == ret.out.normalized[u][v] IN 0 < x.num /\ x.num < x.den

-----------------------------------------------------------------------------
(* Properties of the term-document matrix *)

\* C20: over the vector-space queries on one index the term-document matrix
\* is built at most once, a later query building none; and the matrix a query
\* works on is the matrix of the current index.
C20_MatrixBuiltAtMostOnce ==
    /\ tdm_builds <= 1
    /\ (ret.op = "vectorialModel" /\ has_attrs) => ret.tdm = tdm_of(all_words)

====
